---- MODULE Spec2Model ----
(***************************************************************************)
(* Model of api/src/services/audio.py: the per-stream AudioNormalizer      *)
(* (constructor, find_first_last_non_silent, normalize) and                *)
(* AudioService.convert_audio.                                             *)
(*                                                                         *)
(* Samples are integers.  An int16 buffer holds its sample values; a float *)
(* chunk holds its values in units of 1/Loudest, which leaves the ratio    *)
(* sample / peak (all that normalize reads of a chunk) unchanged.          *)
(* Indices are the code's 0-based indices: audio_data[X] is buf[X + 1].    *)
(***************************************************************************)
EXTENDS Integers, Sequences, FiniteSets

(* ------------------------------ bounds -------------------------------- *)

\* longest run of freely chosen samples inside a chunk
MaxPatLen == 2
\* settings.gap_trim_ms ranges over 0..MaxGapTrimMs
MaxGapTrimMs == 1
\* settings.dynamic_gap_trim_padding_ms ranges up to 50 + MaxExtraPadMs
MaxExtraPadMs == 1
\* the largest sample magnitude of an input chunk
Loudest == 200

(* ------------------------- program constants --------------------------- *)

\* np.iinfo(np.int16).max
int16_max == 32767
\* self.sample_rate
sample_rate == 24000
\* the 50 ms of start padding
pad_start_ms == 50
\* floor(int16_max * 10 ** (-45 / 20)) = floor(184.26...): the threshold is
\* only ever compared with integer samples, and x > 184.26... iff x > 184
amplitude_threshold == 184
\* the value of non_silent_index_start / _end while no sample was found
None == -1

Streams == {"s1", "s2"}

(* ------------------------------ helpers -------------------------------- *)

Abs(x) == IF x < 0 THEN -x ELSE x

Min2(a, b) == IF a < b THEN a ELSE b

Max2(a, b) == IF a > b THEN a ELSE b

SetMax(S) == CHOOSE m \in S : \A x \in S : x <= m

SetMin(S) == CHOOSE m \in S : \A x \in S : m <= x

\* int(x) of a non-negative or negative quotient a / b (b > 0): towards zero
TruncDiv(a, b) == IF a >= 0 THEN a \div b ELSE -((-a) \div b)

\* Python's a[lo:hi] on a sequence: a negative bound counts from the end,
\* bounds are clamped into 0..len, and lo >= hi gives the empty sequence
PyBound(i, n) == IF i < 0 THEN Max2(n + i, 0) ELSE Min2(i, n)

PySlice(a, lo, hi) == SubSeq(a, PyBound(lo, Len(a)) + 1, PyBound(hi, Len(a)))

(* --------------------------- AudioNormalizer --------------------------- *)

\* AudioNormalizer.__init__ under the given settings
AudioNormalizerInit(cfg) ==
    [ int16_max            |-> int16_max,
      chunk_trim_ms        |-> cfg.gap_trim_ms,
      sample_rate          |-> sample_rate,
      samples_to_trim      |-> (cfg.gap_trim_ms * sample_rate) \div 1000,
      samples_to_pad_start |-> (pad_start_ms * sample_rate) \div 1000,
      samples_to_pad_end   |->
          Max2(((cfg.dynamic_gap_trim_padding_ms * sample_rate) \div 1000)
                  - ((pad_start_ms * sample_rate) \div 1000), 0) ]

\* audio_data[X] > amplitude_threshold, the test of both scans
AboveThreshold(x) == x > amplitude_threshold

\* the forward scan: the first X in range(0, len) that passes the test
FirstNonSilent(audio_data) ==
    LET hits == {X \in 0..(Len(audio_data) - 1) : AboveThreshold(audio_data[X + 1])}
    IN  IF hits = {} THEN None ELSE SetMin(hits)

\* the backward scan: the first X in range(len - 1, -1, -1) that passes
LastNonSilent(audio_data) ==
    LET hits == {X \in 0..(Len(audio_data) - 1) : AboveThreshold(audio_data[X + 1])}
    IN  IF hits = {} THEN None ELSE SetMax(hits)

\* lines 42-46: the fully silent case, else the padded and clamped indices
PaddedBounds(self, audio_data, non_silent_index_start, non_silent_index_end) ==
    IF non_silent_index_start = None \/ non_silent_index_end = None
    THEN [ non_silent_index_start |-> non_silent_index_start,
           non_silent_index_end   |-> non_silent_index_end,
           start |-> 0,
           end   |-> Len(audio_data) ]
    ELSE [ non_silent_index_start |-> non_silent_index_start,
           non_silent_index_end   |-> non_silent_index_end,
           start |-> Max2(non_silent_index_start - self.samples_to_pad_start, 0),
           end   |-> Min2(non_silent_index_end + self.samples_to_pad_end,
                          Len(audio_data)) ]

\* the locator with line 46 written without max(.., 0) and min(.., len)
find_first_last_non_silent_unclamped(self, audio_data) ==
    LET loc == PaddedBounds(self, audio_data,
                            FirstNonSilent(audio_data), LastNonSilent(audio_data))
    IN  IF loc.non_silent_index_start = None
        THEN loc
        ELSE [loc EXCEPT
                !.start = loc.non_silent_index_start - self.samples_to_pad_start,
                !.end   = loc.non_silent_index_end + self.samples_to_pad_end]

\* find_first_last_non_silent: its two locals and the pair it returns
find_first_last_non_silent(self, audio_data) ==
    PaddedBounds(self, audio_data,
                 FirstNonSilent(audio_data), LastNonSilent(audio_data))

\* np.max(np.abs(audio_float)) of a non-empty array
AbsPeak(audio_data) == SetMax({Abs(audio_data[i]) : i \in 1..Len(audio_data)})

\* the quantization scaled by 2^15 instead of int16_max
QuantizeByFullScale(x, peak) ==
    IF peak > 0 THEN TruncDiv(x * (int16_max + 1), peak) ELSE x * (int16_max + 1)

\* (x / peak * int16_max).astype(np.int16) of one sample: the cast truncates
\* towards zero; peak = 0 leaves the (all-zero) chunk undivided
Quantize(x, peak) ==
    IF peak > 0 THEN TruncDiv(x * int16_max, peak) ELSE x * int16_max

\* audio_float[:-self.samples_to_trim] for a non-final chunk longer than the trim
EndTrim(self, audio_float, is_last_chunk) ==
    IF ~is_last_chunk /\ Len(audio_float) > self.samples_to_trim
    THEN PySlice(audio_float, 0, -self.samples_to_trim)
    ELSE audio_float

\* audio_float * self.int16_max, cast, for every sample kept
QuantizeAll(audio_float, peak) ==
    [i \in 1..Len(audio_float) |-> Quantize(audio_float[i], peak)]

\* the outcome of a call: what it returned or raised, with the locals of
\* normalize and of the locator that the properties below speak of
Outcome(kind, error, cause, audio_int, loc, value, nbytes) ==
    [ kind |-> kind, error |-> error, cause |-> cause,
      audio_int |-> audio_int,
      non_silent_index_start |-> loc.non_silent_index_start,
      non_silent_index_end   |-> loc.non_silent_index_end,
      start_index |-> loc.start, end_index |-> loc.end,
      value |-> value, nbytes |-> nbytes ]

NoBounds ==
    [ non_silent_index_start |-> None, non_silent_index_end |-> None,
      start |-> 0, end |-> 0 ]

\* lines 63-66: audio_int[start_index:end_index]
SliceResult(audio_int, loc) ==
    Outcome("array", "none", "none", audio_int, loc,
            PySlice(audio_int, loc.start, loc.end), 0)

\* lines 61-66 on the quantized buffer
TrimSilence(self, audio_int) ==
    SliceResult(audio_int, find_first_last_non_silent(self, audio_int))

\* normalize; np.max of a zero-size array raises ValueError at line 54
normalize(self, audio_data, is_last_chunk) ==
    IF Len(audio_data) = 0
    THEN Outcome("exception", "ValueError: zero-size array to reduction operation",
                 "none", <<>>, NoBounds, <<>>, 0)
    ELSE TrimSilence(self,
             QuantizeAll(EndTrim(self, audio_data, is_last_chunk),
                         AbsPeak(audio_data)))

\* a normalize that keeps a running count in self.samples_to_trim
SelfAfterNormalizeAccumulating(self) ==
    [self EXCEPT !.samples_to_trim = @ + 1]

\* normalize assigns no attribute of self
SelfAfterNormalize(self) == self

(* ----------------------------- AudioService ---------------------------- *)

EncoderFormats == {"wav", "mp3", "opus", "flac"}

SupportedFormats == EncoderFormats \cup {"pcm"}

\* bytes per sample of ndarray.tobytes()
ItemSize(dtype) == IF dtype = "int16" THEN 2 ELSE 4

\* line 179-181: every exception raised in the try block is caught and
\* re-raised as ValueError("Failed to convert audio to ...: " + str(e))
Wrapped(e) ==
    Outcome("exception", "ValueError: Failed to convert audio to {output_format}",
            e, <<>>, NoBounds, <<>>, 0)

\* lines 131-177 on normalized_audio, an array of the given dtype
Encode(normalized_audio, dtype, output_format, encoder_ok) ==
    IF output_format = "pcm"
    THEN Outcome("bytes", "none", "none", <<>>, NoBounds, normalized_audio,
                 ItemSize(dtype) * Len(normalized_audio))
    ELSE IF output_format \in EncoderFormats
    THEN IF encoder_ok
         THEN Outcome("encoded", "none", "none", <<>>, NoBounds, normalized_audio, 0)
         ELSE Wrapped("encoder error")
    ELSE Wrapped("ValueError: Format {output_format} not supported. Supported formats are: wav, mp3, opus, flac, pcm.")

\* lines 124-129 handed on to the encoding
EncodeNormalized(n, dtype, output_format, encoder_ok) ==
    IF n.kind = "exception"
    THEN Wrapped(n.error)
    ELSE Encode(n.value, dtype, output_format, encoder_ok)

\* convert_audio; `normalizer` is the instance used when stream is set (the
\* caller's, or a new AudioNormalizer() when the caller passed none), and
\* encoder_ok is whether the soundfile / scipy writer succeeds
convert_audio(audio_data, dtype, output_format, is_last_chunk, normalizer, stream, encoder_ok) ==
    IF stream
    THEN EncodeNormalized(normalize(normalizer, audio_data, is_last_chunk),
                          "int16", output_format, encoder_ok)
    ELSE Encode(audio_data, dtype, output_format, encoder_ok)

(* ------------------------------- inputs -------------------------------- *)

Settings ==
    [ gap_trim_ms : 0..MaxGapTrimMs,
      dynamic_gap_trim_padding_ms : (pad_start_ms - 1)..(pad_start_ms + MaxExtraPadMs) ]

SamplesPerMs == sample_rate \div 1000

\* a chunk: `lead` zero samples, a pattern of chosen samples, `tail` zeros
Chunk(lead, pat, tail) ==
    [i \in 1..(lead + Len(pat) + tail) |->
        IF i > lead /\ i <= lead + Len(pat) THEN pat[i - lead] ELSE 0]

PatternsOver(vals) == UNION {[1..n -> vals] : n \in 0..MaxPatLen}

\* zero runs short of, and just beyond, the start padding and the gap trim
Leads == {0, (pad_start_ms * sample_rate) \div 1000 + 1}

Tails == {0, SamplesPerMs * (MaxExtraPadMs + 1)}

\* loud of either sign, and quiet (1 / Loudest of the peak quantizes to 163)
ChunkSamples == {-Loudest, 1, Loudest}

Chunks ==
    {Chunk(l, p, t) : l \in Leads, p \in PatternsOver(ChunkSamples), t \in Tails}

\* int16 buffers around the threshold, for direct calls of the locator
Int16Samples ==
    {-(amplitude_threshold + 1), amplitude_threshold, amplitude_threshold + 1}

Int16Buffers ==
    {Chunk(l, p, t) : l \in Leads, p \in PatternsOver(Int16Samples), t \in Tails}

\* convert_audio is driven with the short chunks
ShortChunks == {Chunk(0, p, 0) : p \in PatternsOver(ChunkSamples)}

Formats == SupportedFormats \cup {"aac", "xyz"}

DTypes == {"int16", "float32"}

(* ------------------------------- state --------------------------------- *)

VARIABLES settings, normalizers, pc, call, ret

vars == <<settings, normalizers, pc, call, ret>>

NoCall ==
    [ op |-> "none", self |-> "none", audio_data |-> <<>>, dtype |-> "none",
      is_last_chunk |-> FALSE, output_format |-> "none", stream |-> FALSE,
      encoder_ok |-> TRUE ]

NoRet == Outcome("none", "none", "none", <<>>, NoBounds, <<>>, 0)

Init ==
    /\ settings \in Settings
    /\ normalizers = [s \in Streams |-> AudioNormalizerInit(settings)]
    /\ pc = "idle"
    /\ call = NoCall
    /\ ret = NoRet

Finish(r) ==
    /\ ret' = r
    /\ pc' = IF r.kind = "exception" THEN "raised" ELSE "returned"

\* a stream's loop hands its next chunk to its own normalizer
CallNormalize ==
    /\ pc = "idle"
    /\ \E s \in Streams, chunk \in Chunks, last \in BOOLEAN :
          /\ call' = [NoCall EXCEPT !.op = "normalize", !.self = s,
                         !.audio_data = chunk, !.is_last_chunk = last]
          /\ \E r \in {normalize(normalizers[s], chunk, last)} : Finish(r)
          /\ normalizers' = [normalizers EXCEPT ![s] = SelfAfterNormalize(@)]
    /\ UNCHANGED settings

\* a direct call of the locator on an int16 buffer
CallFindFirstLastNonSilent ==
    /\ pc = "idle"
    /\ \E s \in Streams, buf \in Int16Buffers :
          /\ call' = [NoCall EXCEPT !.op = "find_first_last_non_silent",
                         !.self = s, !.audio_data = buf]
          /\ \E loc \in {find_first_last_non_silent(normalizers[s], buf)} :
                Finish(Outcome("indices", "none", "none", buf, loc, <<>>, 0))
    /\ UNCHANGED <<settings, normalizers>>

\* convert_audio with the caller's normalizer, or with none
CallConvertAudio ==
    /\ pc = "idle"
    /\ \E chunk \in ShortChunks, dt \in DTypes, fmt \in Formats,
          last \in BOOLEAN, nz \in Streams \cup {"None"}, st \in BOOLEAN :
       \E ok \in IF fmt \in EncoderFormats THEN BOOLEAN ELSE {TRUE} :
          /\ call' = [ op |-> "convert_audio", self |-> nz, audio_data |-> chunk,
                        dtype |-> dt, is_last_chunk |-> last,
                        output_format |-> fmt, stream |-> st, encoder_ok |-> ok ]
          /\ \E r \in {convert_audio(chunk, dt, fmt, last,
                            IF nz = "None" THEN AudioNormalizerInit(settings)
                                           ELSE normalizers[nz],
                            st, ok)} : Finish(r)
          /\ normalizers' =
                IF st /\ nz # "None"
                THEN [normalizers EXCEPT ![nz] = SelfAfterNormalize(@)]
                ELSE normalizers
    /\ UNCHANGED settings

\* the caller takes the result (or the exception) and goes on
NextCall ==
    /\ pc \in {"returned", "raised"}
    /\ pc' = "idle"
    /\ call' = NoCall
    /\ ret' = NoRet
    /\ UNCHANGED <<settings, normalizers>>

Next ==
    \/ CallNormalize
    \/ CallFindFirstLastNonSilent
    \/ CallConvertAudio
    \/ NextCall

Spec == Init /\ [][Next]_vars

(* ----------------------------- properties ------------------------------ *)

NormalizeReturned == pc = "returned" /\ call.op = "normalize"

NormalizeEnded == pc \in {"returned", "raised"} /\ call.op = "normalize"

LocatorReturned ==
    pc = "returned" /\ call.op \in {"normalize", "find_first_last_non_silent"}

ConvertEnded == pc \in {"returned", "raised"} /\ call.op = "convert_audio"

\* the normalizer a finished call ran on
SelfOfCall ==
    IF call.self \in Streams THEN normalizers[call.self]
                             ELSE AudioNormalizerInit(settings)

PeakOrZero(a) == IF Len(a) = 0 THEN 0 ELSE AbsPeak(a)

IndicesAbove(buf) ==
    {X \in 0..(Len(buf) - 1) : buf[X + 1] > amplitude_threshold}

IndicesAboveInMagnitude(buf) ==
    {X \in 0..(Len(buf) - 1) : Abs(buf[X + 1]) > amplitude_threshold}

\* C1: a non-final chunk longer than chunkTrimSamples reaches quantization
\* without exactly its last chunkTrimSamples samples; a final chunk, and a
\* chunk no longer than chunkTrimSamples, reaches it whole.
C1_EndTrimDropsOnlyTheTrim ==
    NormalizeReturned =>
        LET n    == Len(call.audio_data)
            k    == SelfOfCall.samples_to_trim
            full == QuantizeAll(call.audio_data, AbsPeak(call.audio_data))
        IN  ret.audio_int =
                IF ~call.is_last_chunk /\ n > k THEN SubSeq(full, 1, n - k)
                                                ELSE full

\* C2: the locator's first and last index are the first and the last index
\* whose ABSOLUTE sample value exceeds the threshold, so a sample below
\* -amplitude counts as non-silent.
C2_LocatorTestsMagnitude ==
    LocatorReturned =>
        LET hits == IndicesAboveInMagnitude(ret.audio_int)
        IN  /\ ret.non_silent_index_start =
                    (IF hits = {} THEN None ELSE SetMin(hits))
            /\ ret.non_silent_index_end =
                    (IF hits = {} THEN None ELSE SetMax(hits))

\* C3: the pair the locator returns satisfies
\* 0 <= start <= end <= len(buffer), for every buffer, the empty one included.
C3_LocatorBoundsInRange ==
    LocatorReturned =>
        /\ 0 <= ret.start_index
        /\ ret.start_index <= ret.end_index
        /\ ret.end_index <= Len(ret.audio_int)

\* C3 witness: a direct call whose padding is clamped at neither end
C3_Witness ==
    /\ pc = "returned"
    /\ call.op = "find_first_last_non_silent"
    /\ ret.non_silent_index_start # None
    /\ 0 < ret.start_index
    /\ ret.start_index < ret.end_index
    /\ ret.end_index < Len(ret.audio_int)

\* C4: normalize returns at least one sample when the quantized, end-trimmed
\* chunk has a sample whose magnitude exceeds the threshold, and returns an
\* empty buffer only for a zero-length input.
C4_RealSignalGivesNonEmptyOutput ==
    NormalizeReturned =>
        /\ IndicesAboveInMagnitude(ret.audio_int) # {} => Len(ret.value) >= 1
        /\ Len(ret.value) = 0 => Len(call.audio_data) = 0

\* C5: convert_audio with a format outside {wav, mp3, opus, flac, pcm} ends
\* with the unsupported-format error itself, not wrapped as a failure to
\* convert.
C5_UnsupportedFormatReachesCaller ==
    (ConvertEnded /\ call.output_format \notin SupportedFormats
                  /\ (call.stream => Len(call.audio_data) > 0)) =>
        /\ pc = "raised"
        /\ ret.error = "ValueError: Format {output_format} not supported. Supported formats are: wav, mp3, opus, flac, pcm."

\* C6: convert_audio with format pcm returns exactly 2 * len(normalizedBuffer)
\* bytes, where normalizedBuffer is the output of normalize in streaming
\* mode and the raw chunk otherwise.
C6_PcmIsTwoBytesPerSample ==
    (ConvertEnded /\ pc = "returned" /\ call.output_format = "pcm") =>
        /\ ret.value =
              IF call.stream
              THEN normalize(SelfOfCall, call.audio_data, call.is_last_chunk).value
              ELSE call.audio_data
        /\ ret.nbytes = 2 * Len(ret.value)

\* the chunk as quantized after peak normalization and end trimming
QuantizedInput ==
    QuantizeAll(EndTrim(SelfOfCall, call.audio_data, call.is_last_chunk),
                PeakOrZero(call.audio_data))

\* C7: when every sample of the chunk is at or below the silence threshold,
\* normalize raises nothing, the locator returns (0, len(buffer)) and the
\* whole quantized buffer is returned.
C7_SilentChunkReturnedWhole ==
    (NormalizeEnded /\ IndicesAboveInMagnitude(QuantizedInput) = {}) =>
        /\ pc = "returned"
        /\ ret.start_index = 0
        /\ ret.end_index = Len(ret.audio_int)
        /\ ret.value = QuantizedInput

\* C8: the output of normalize is no longer than its input and each of its
\* samples has absolute value <= 32767.
C8_OutputBounded ==
    NormalizeReturned =>
        /\ Len(ret.value) <= Len(call.audio_data)
        /\ \A i \in 1..Len(ret.value) : Abs(ret.value[i]) <= int16_max

\* C8 witness: a strictly shorter, non-empty output that holds a full-scale
\* sample of each sign
C8_Witness ==
    /\ NormalizeReturned
    /\ 0 < Len(ret.value)
    /\ Len(ret.value) < Len(call.audio_data)
    /\ \E i \in 1..Len(ret.value) : ret.value[i] = int16_max
    /\ \E i \in 1..Len(ret.value) : ret.value[i] = -int16_max

\* C9: every normalizer keeps the field values its constructor gave it, so
\* what normalize returns is what a newly constructed instance returns for
\* the same chunk and flag.
C9_NormalizerNeverMutated ==
    /\ \A s \in Streams : normalizers[s] = AudioNormalizerInit(settings)
    /\ NormalizeEnded =>
          ret = normalize(AudioNormalizerInit(settings),
                          call.audio_data, call.is_last_chunk)

\* C9 witness: a call that end-trimmed and silence-trimmed its chunk has
\* returned on the second stream
C9_Witness ==
    /\ NormalizeReturned
    /\ call.self = "s2"
    /\ normalizers["s2"].samples_to_trim > 0
    /\ Len(ret.audio_int) < Len(call.audio_data)
    /\ Len(ret.value) < Len(ret.audio_int)

\* C10: the range [start, end) that normalize slices out holds every index
\* whose sample exceeds the threshold, the last such index included.
C10_TrimKeepsEveryNonSilentSample ==
    NormalizeReturned =>
        \A X \in IndicesAbove(ret.audio_int) :
            ret.start_index <= X /\ X < ret.end_index

====
